---------------------------- MODULE Spec2Model ----------------------------
(***************************************************************************)
(* The pub/sub broker of rusty-pub-sub (server/src): the subscription      *)
(* registry (state.rs), the per-connection consumer loop and its handlers  *)
(* (consumer.rs) and the accept loop (main.rs).                            *)
(*                                                                         *)
(* A client's identity is what get_client_address returns: the memory      *)
(* address of the TcpStream value it is handed, printed as a decimal       *)
(* string.  Addresses are modelled as small naturals.                      *)
(***************************************************************************)
EXTENDS Naturals, Sequences, FiniteSets, TLC

(***************************************************************************)
(* Bounds of the model.                                                    *)
(***************************************************************************)
MaxConns == 2      \* connections the listener accepts
MaxChannels == 2   \* channel names clients use
MaxMsgs == 1       \* distinct message bodies clients publish
MaxCmds == 3       \* header reads made by all handlers together
MaxFrames == 2     \* byte level: frames a client writes to its connection
MaxShort == 1      \* byte level: reads the transport cuts short
MaxThreads == 2    \* lock level: threads that call the registry

ChannelNames == <<"a", "b", "c">>
MessageNames == <<"hello\n", "bye\n">>

Conns == 1..MaxConns
Threads == 1..MaxThreads
Channels == {ChannelNames[i] : i \in 1..MaxChannels}
Messages == {MessageNames[i] : i \in 1..MaxMsgs}

(***************************************************************************)
(* Addresses.  `stream` of Server::run is one local of run's frame: every  *)
(* accepted connection is bound to the same slot before it is moved into   *)
(* the spawned thread's closure.  Inside the thread the stream lives in    *)
(* the thread's own memory, a place distinct from run's frame and from the *)
(* place of every other running thread, and free for reuse once the thread *)
(* has ended.                                                              *)
(***************************************************************************)
ListenerSlot == 0
HandlerSlots == 1..MaxConns
Ids == {ListenerSlot} \cup HandlerSlots

\* state.rs 16-21: the two mutexes
Mutexes == {"CLIENTS", "SUBSCRIPTIONS"}

\* the reply without its line end
PongNoNewline == "PONG"

\* consumer.rs 192: the bytes ping_handler writes
PONG == "PONG\n"

VARIABLES
    clients,      \* CLIENTS: id -> set of channel names
    subs,         \* SUBSCRIPTIONS: channel name -> set of ids
    pc,           \* per connection: where its handler thread is
    addr,         \* per connection: address of the stream inside its thread
    regId,        \* per connection: the id add_client was given at accept
    connected,    \* per connection: the consumer loop's `connected` flag
    cmd,          \* per connection: the frame being dispatched
    snap,         \* per connection: publish_handler's `subscribers`
    todo,         \* per connection: subscribers the for loop has yet to visit
    cur,          \* per connection: the subscriber whose write just failed
    sent,         \* per connection: the running fan-out's writes: the ids
                  \* written to with success (ok) and without (failed), and
                  \* for each write that succeeded the subscriber id it was
                  \* meant for and the connection (and its id) it reached
    rx,           \* per connection: what its peer has received
    ioFailed,     \* per connection: a read/write on its own socket failed
    removeCalls,  \* per connection: remove_client calls made by its handler
    ncmds,        \* header reads made so far
    up,           \* the broker process is running
    lastCall,     \* single-threaded use: the call made last, and whether
                  \* it left both maps as they were
    stream,       \* byte level: bytes the client has written that the
                  \* server has not read yet
    wpc,          \* byte level: where the consumer loop is
    msgLen,       \* byte level: message_length of the frame being read
    dispatched,   \* byte level: what the loop has dispatched, in order
    written,      \* byte level: the payloads the client has sent, in order
    shortReads,   \* byte level: reads that returned a part of what had arrived
    published,    \* delivery: the texts handed to the publishing client
    socket,       \* delivery: bytes written to the subscriber's connection
                  \* that its client has not read yet
    callbacks,    \* delivery: the texts the listen loop gave its callback
    locks,        \* lock level: per mutex, the thread whose guard is alive
                  \* (0: none)
    lpc,          \* lock level: per thread, where it is in a registry call
    larg          \* lock level: per thread, the channel of the call, inside
                  \* remove_client the channels its loop has still to visit,
                  \* and whether the lock() it is at has returned

vars == <<clients, subs, pc, addr, regId, connected, cmd, snap, todo, cur,
          sent, rx, ioFailed, removeCalls, ncmds, up, lastCall, stream, wpc,
          msgLen, dispatched, written, shortReads, published, socket,
          callbacks, locks, lpc, larg>>

threadVars == <<pc, addr, regId, connected, cmd, snap, todo, cur, sent, rx,
                ioFailed, removeCalls, ncmds, up>>

wireVars == <<stream, wpc, msgLen, dispatched, written, shortReads>>

lineVars == <<published, socket, callbacks>>

lockVars == <<locks, lpc, larg>>

\* what the handler threads of the broker leave alone
offThread == <<lastCall, wireVars, lineVars, lockVars>>

(***************************************************************************)
(* HashMap operations.                                                     *)
(***************************************************************************)
EmptyMap == [x \in {} |-> {}]

contains_key(m, k) == k \in DOMAIN m

insert(m, k, v) == [x \in DOMAIN m \cup {k} |-> IF x = k THEN v ELSE m[x]]

remove(m, k) == [x \in DOMAIN m \ {k} |-> m[x]]

(***************************************************************************)
(* state.rs: the registry.  Each operator is one function of the source,   *)
(* run without interference (the handler threads below take the same       *)
(* steps one lock acquisition at a time).                                  *)
(***************************************************************************)
is_registered(c, id) == contains_key(c, id)

add_client(c, id) ==
    IF is_registered(c, id) THEN c ELSE insert(c, id, {})

is_channel_registered(s, ch) == contains_key(s, ch)

\* line 107-110: the channel key is (re)bound to an empty set
InsertChannel(s, ch) == insert(s, ch, {})

\* the id is taken out when it is already in the set
ToggleSubscriber(s, id, ch) ==
    [s EXCEPT ![ch] = IF id \in @ THEN @ \ {id} ELSE @ \cup {id}]

\* line 112-118: subscriptions.get_mut(channel).unwrap().insert(id)
InsertSubscriber(s, id, ch) == [s EXCEPT ![ch] = @ \cup {id}]

\* a channel whose set becomes empty is dropped from the map
RemoveSubscriberPruning(s, id, ch) ==
    IF s[ch] \ {id} = {} THEN remove(s, ch)
    ELSE [s EXCEPT ![ch] = @ \ {id}]

\* the channel's whole set is dropped
RemoveSubscriberClear(s, id, ch) == [s EXCEPT ![ch] = {}]

\* the id is taken out of every channel instead
RemoveSubscriberEverywhere(s, id, ch) == [c \in DOMAIN s |-> s[c] \ {id}]

\* line 132-137: SUBSCRIPTIONS.get_mut(channel).unwrap().remove(id)
RemoveSubscriber(s, id, ch) == [s EXCEPT ![ch] = @ \ {id}]

add_subscription(s, id, ch) ==
    LET s1 == IF ~is_channel_registered(s, ch) THEN InsertChannel(s, ch) ELSE s
    IN  InsertSubscriber(s1, id, ch)

\* the channel entry is created when it is missing
RemoveSubscriptionCreating(s, id, ch) ==
    RemoveSubscriber(IF is_channel_registered(s, ch) THEN s
                     ELSE InsertChannel(s, ch), id, ch)

remove_subscription(s, id, ch) ==
    IF ~is_channel_registered(s, ch) THEN s ELSE RemoveSubscriber(s, id, ch)

get_subscribers(s, ch) ==
    IF ~is_channel_registered(s, ch) THEN {} ELSE s[ch]

\* line 80-82: remove_subscription for every channel of the client's set
RECURSIVE RemoveEach(_, _, _)
RemoveEach(s, id, chs) ==
    IF chs = {} THEN s
    ELSE LET ch == CHOOSE x \in chs : TRUE
         IN  RemoveEach(remove_subscription(s, id, ch), id, chs \ {ch})

\* the final clients.remove is left out
RemoveClientKeepsEntry(c, s, id) ==
    IF ~is_registered(c, id) THEN <<c, s>>
    ELSE <<c, RemoveEach(s, id, c[id])>>

\* the pair <<CLIENTS, SUBSCRIPTIONS>> after remove_client
remove_client(c, s, id) ==
    IF ~is_registered(c, id) THEN <<c, s>>
    ELSE <<remove(c, id), RemoveEach(s, id, c[id])>>

(***************************************************************************)
(* Initial state: both maps empty, nothing accepted.                       *)
(***************************************************************************)
NoCmd == [verb |-> "", channel |-> "", message |-> ""]
NoArg == [channel |-> "", todo |-> {}, nested |-> FALSE, got |-> FALSE]
NoSent == [ok |-> {}, failed |-> {}, to |-> <<>>]
NoCall == [op |-> "", noop |-> TRUE]

Init ==
    /\ clients = EmptyMap
    /\ subs = EmptyMap
    /\ pc = [k \in Conns |-> "none"]
    /\ addr = [k \in Conns |-> ListenerSlot]
    /\ regId = [k \in Conns |-> ListenerSlot]
    /\ connected = [k \in Conns |-> FALSE]
    /\ cmd = [k \in Conns |-> NoCmd]
    /\ snap = [k \in Conns |-> {}]
    /\ todo = [k \in Conns |-> {}]
    /\ cur = [k \in Conns |-> ListenerSlot]
    /\ sent = [k \in Conns |-> NoSent]
    /\ rx = [k \in Conns |-> <<>>]
    /\ ioFailed = [k \in Conns |-> FALSE]
    /\ removeCalls = [k \in Conns |-> 0]
    /\ ncmds = 0
    /\ up = TRUE
    /\ lastCall = NoCall
    /\ stream = <<>>
    /\ wpc = "header"
    /\ msgLen = 0
    /\ dispatched = <<>>
    /\ written = <<>>
    /\ shortReads = 0
    /\ published = <<>>
    /\ socket = <<>>
    /\ callbacks = <<>>
    /\ locks = [m \in Mutexes |-> 0]
    /\ lpc = [t \in Threads |-> "idle"]
    /\ larg = [t \in Threads |-> NoArg]

(***************************************************************************)
(* Single-threaded use of the registry, as the unit tests of state.rs make *)
(* it: one call after the other, each run to completion.                   *)
(***************************************************************************)
\* the record of a call that took the maps from <<c, s>> to <<c2, s2>>
Called(op, c, s, c2, s2) == [op |-> op, noop |-> (c2 = c /\ s2 = s)]

CallAddClient(id) ==
    /\ clients' = add_client(clients, id)
    /\ UNCHANGED <<subs, threadVars, wireVars, lineVars, lockVars>>
    /\ lastCall' = Called("add_client", clients, subs, clients', subs')

CallRemoveClient(id) ==
    /\ clients' = remove_client(clients, subs, id)[1]
    /\ subs' = remove_client(clients, subs, id)[2]
    /\ UNCHANGED <<threadVars, wireVars, lineVars, lockVars>>
    /\ lastCall' = Called("remove_client", clients, subs, clients', subs')

CallAddSubscription(id, ch) ==
    /\ subs' = add_subscription(subs, id, ch)
    /\ UNCHANGED <<clients, threadVars, wireVars, lineVars, lockVars>>
    /\ lastCall' = Called("add_subscription", clients, subs, clients', subs')

CallRemoveSubscription(id, ch) ==
    /\ subs' = remove_subscription(subs, id, ch)
    /\ UNCHANGED <<clients, threadVars, wireVars, lineVars, lockVars>>
    /\ lastCall' = Called("remove_subscription", clients, subs, clients', subs')

\* the ids of the clients the calls are made with
SerialIds == HandlerSlots

NextSerial ==
    \/ \E id \in SerialIds : CallAddClient(id)
    \/ \E id \in SerialIds : CallRemoveClient(id)
    \/ \E id \in SerialIds, ch \in Channels : CallAddSubscription(id, ch)
    \/ \E id \in SerialIds, ch \in Channels : CallRemoveSubscription(id, ch)

SpecSerial == Init /\ [][NextSerial]_vars

(***************************************************************************)
(* The broker: the accept loop and one handler thread per connection.      *)
(***************************************************************************)
Running(k) == pc[k] \notin {"none", "exit", "panic"}

\* the connection whose stream lives at address s, if a handler is running there
LiveAt(s) == {j \in Conns : Running(j) /\ addr[j] = s}

\* Places a new thread's stream can get: the place of a thread that has ended,
\* or a fresh one (fresh places are interchangeable: the lowest is taken).
UsedSlots == {addr[j] : j \in {i \in Conns : pc[i] # "none"}}
FreshSlots == HandlerSlots \ UsedSlots
FreeSlots ==
    {a \in HandlerSlots \ {addr[j] : j \in {i \in Conns : Running(i)}} :
        a \in UsedSlots \/ \A b \in FreshSlots : a <= b}

\* main.rs 20-36: add_client(&stream) with the stream in run's frame, then
\* the stream is moved into the spawned thread, which runs consumer on it
Accept(k) ==
    /\ up
    /\ pc[k] = "none"
    /\ \A j \in Conns : j < k => pc[j] # "none"
    /\ \E a \in FreeSlots : addr' = [addr EXCEPT ![k] = a]
    /\ clients' = add_client(clients, ListenerSlot)
    /\ regId' = [regId EXCEPT ![k] = ListenerSlot]
    /\ connected' = [connected EXCEPT ![k] = TRUE]
    /\ pc' = [pc EXCEPT ![k] = "read"]
    /\ UNCHANGED <<subs, cmd, snap, todo, cur, sent, rx, ioFailed,
                   removeCalls, ncmds, up,
                   offThread>>

\* consumer.rs 21-59: a frame is read, decoded and matched on its verb
Dispatching(k, verb, ch, m) ==
    /\ up
    /\ pc[k] = "read"
    /\ ncmds < MaxCmds
    /\ ncmds' = ncmds + 1
    /\ cmd' = [cmd EXCEPT ![k] = [verb |-> verb, channel |-> ch, message |-> m]]

\* consumer.rs 23: client.read(&mut buffer).unwrap() on a failed read
ReadError(k) ==
    /\ up
    /\ pc[k] = "read"
    /\ ncmds < MaxCmds
    /\ ncmds' = ncmds + 1
    /\ pc' = [pc EXCEPT ![k] = "panic"]
    /\ ioFailed' = [ioFailed EXCEPT ![k] = TRUE]
    /\ UNCHANGED <<clients, subs, addr, regId, connected, cmd, snap, todo, cur,
                   sent, rx, removeCalls, up,
                   offThread>>

\* subscribe_handler -> add_subscription, up to the is_channel_registered test
Subscribe(k, ch) ==
    /\ Dispatching(k, "SUBSCRIBE", ch, "")
    /\ pc' = [pc EXCEPT ![k] = IF is_channel_registered(subs, ch)
                               THEN "sub_insert_id" ELSE "sub_insert_channel"]
    /\ UNCHANGED <<clients, subs, addr, regId, connected, snap, todo, cur,
                   sent, rx, ioFailed, removeCalls, up,
                   offThread>>

\* state.rs 107-110
SubInsertChannel(k) ==
    /\ up
    /\ pc[k] = "sub_insert_channel"
    /\ subs' = InsertChannel(subs, cmd[k].channel)
    /\ pc' = [pc EXCEPT ![k] = "sub_insert_id"]
    /\ UNCHANGED <<clients, addr, regId, connected, cmd, snap, todo, cur,
                   sent, rx, ioFailed, removeCalls, ncmds, up,
                   offThread>>

\* state.rs 112-118
SubInsertId(k) ==
    /\ up
    /\ pc[k] = "sub_insert_id"
    /\ subs' = InsertSubscriber(subs, addr[k], cmd[k].channel)
    /\ pc' = [pc EXCEPT ![k] = "flush"]
    /\ UNCHANGED <<clients, addr, regId, connected, cmd, snap, todo, cur,
                   sent, rx, ioFailed, removeCalls, ncmds, up,
                   offThread>>

\* unsubscribe_handler -> remove_subscription, up to is_channel_registered
Unsubscribe(k, ch) ==
    /\ Dispatching(k, "UNSUBSCRIBE", ch, "")
    /\ pc' = [pc EXCEPT ![k] = IF is_channel_registered(subs, ch)
                               THEN "unsub_remove" ELSE "flush"]
    /\ UNCHANGED <<clients, subs, addr, regId, connected, snap, todo, cur,
                   sent, rx, ioFailed, removeCalls, up,
                   offThread>>

\* state.rs 132-137
UnsubRemove(k) ==
    /\ up
    /\ pc[k] = "unsub_remove"
    /\ subs' = RemoveSubscriber(subs, addr[k], cmd[k].channel)
    /\ pc' = [pc EXCEPT ![k] = "flush"]
    /\ UNCHANGED <<clients, addr, regId, connected, cmd, snap, todo, cur,
                   sent, rx, ioFailed, removeCalls, ncmds, up,
                   offThread>>

\* consumer.rs 62-65: connected = false; disconnect_handler -> remove_client
Disconnect(k) ==
    /\ Dispatching(k, "DISCONNECT", "", "")
    /\ connected' = [connected EXCEPT ![k] = FALSE]
    /\ clients' = remove_client(clients, subs, addr[k])[1]
    /\ subs' = remove_client(clients, subs, addr[k])[2]
    /\ removeCalls' = [removeCalls EXCEPT ![k] = @ + 1]
    /\ pc' = [pc EXCEPT ![k] = "flush"]
    /\ UNCHANGED <<addr, regId, snap, todo, cur, sent, rx, ioFailed, up,
                   offThread>>

\* the lookup creates the entry of a channel that is not registered
PublishCreating(k, ch, m) ==
    /\ Dispatching(k, "PUBLISH", ch, m)
    /\ subs' = IF is_channel_registered(subs, ch) THEN subs
               ELSE InsertChannel(subs, ch)
    /\ pc' = [pc EXCEPT ![k] = "pub_clone"]
    /\ UNCHANGED <<clients, addr, regId, connected, snap, todo, cur,
                   sent, rx, ioFailed, removeCalls, up,
                   offThread>>

\* publish_handler 138-149: the argument is split at its first space, then
\* get_subscribers tests is_channel_registered (an unknown channel: empty set)
Publish(k, ch, m) ==
    /\ Dispatching(k, "PUBLISH", ch, m)
    /\ pc' = [pc EXCEPT ![k] = IF is_channel_registered(subs, ch)
                               THEN "pub_clone" ELSE "flush"]
    /\ UNCHANGED <<clients, subs, addr, regId, connected, snap, todo, cur,
                   sent, rx, ioFailed, removeCalls, up,
                   offThread>>

\* the argument without a space makes the handler thread panic
PublishNoSpacePanics(k, ch) ==
    /\ Dispatching(k, "PUBLISH", ch, "")
    /\ pc' = [pc EXCEPT ![k] = "panic"]
    /\ UNCHANGED <<clients, subs, addr, regId, connected, snap, todo, cur,
                   sent, rx, ioFailed, removeCalls, up,
                   offThread>>

\* publish_handler 138-143: no space in the argument, the handler returns
PublishNoSpace(k, ch) ==
    /\ Dispatching(k, "PUBLISH", ch, "")
    /\ pc' = [pc EXCEPT ![k] = "flush"]
    /\ UNCHANGED <<clients, subs, addr, regId, connected, snap, todo, cur,
                   sent, rx, ioFailed, removeCalls, up,
                   offThread>>

\* state.rs 149 and consumer.rs 152-154: the snapshot; empty, the handler returns
PubClone(k) ==
    /\ up
    /\ pc[k] = "pub_clone"
    /\ snap' = [snap EXCEPT ![k] = subs[cmd[k].channel]]
    /\ todo' = [todo EXCEPT ![k] = subs[cmd[k].channel]]
    /\ pc' = [pc EXCEPT ![k] = IF subs[cmd[k].channel] = {}
                               THEN "flush" ELSE "pub_write"]
    /\ UNCHANGED <<clients, subs, addr, regId, connected, cmd, cur, sent, rx,
                   ioFailed, removeCalls, ncmds, up,
                   offThread>>

\* the loop is left at the first failed write
AfterFailureReturn(rest, s) == {}

\* what the for loop does after the write to s failed: the subscriber is
\* unsubscribed (consumer.rs 175, 181) and the loop goes on with the rest
AfterFailure(rest, s) == rest \ {s}

\* the loop's next position once subscriber s has been dealt with
NextPc(rest) == IF rest = {} THEN "flush" ELSE "pub_write"

\* consumer.rs 173-182: write_all and flush to subscriber s succeed; the bytes
\* reach connection j
WriteOk(k, s, j) ==
    /\ rx' = [rx EXCEPT ![j] = Append(@, cmd[k].message)]
    /\ sent' = [sent EXCEPT ![k] =
                  [@ EXCEPT !.ok = @ \cup {s},
                            !.to = Append(@, [sub |-> s, conn |-> j,
                                              id |-> addr[j]])]]
    /\ todo' = [todo EXCEPT ![k] = @ \ {s}]
    /\ pc' = [pc EXCEPT ![k] = NextPc(todo[k] \ {s})]
    /\ UNCHANGED <<clients, subs, addr, regId, connected, cmd, snap, cur,
                   ioFailed, removeCalls, ncmds, up,
                   offThread>>

\* consumer.rs 173-182: the write to subscriber s fails; remove_subscription
\* is entered (its is_channel_registered test)
WriteFail(k, s) ==
    /\ sent' = [sent EXCEPT ![k] = [@ EXCEPT !.failed = @ \cup {s}]]
    /\ cur' = [cur EXCEPT ![k] = s]
    /\ todo' = [todo EXCEPT ![k] = AfterFailure(@, s)]
    /\ pc' = [pc EXCEPT ![k] = IF is_channel_registered(subs, cmd[k].channel)
                               THEN "pub_remove"
                               ELSE NextPc(AfterFailure(todo[k], s))]
    /\ UNCHANGED <<clients, subs, addr, regId, connected, cmd, snap, rx,
                   ioFailed, removeCalls, ncmds, up,
                   offThread>>

\* consumer.rs 165-182, subscriber s is the stream of a running handler
PubWriteLive(k) ==
    /\ up
    /\ pc[k] = "pub_write"
    /\ \E s \in todo[k] : \E j \in LiveAt(s) :
          \/ WriteOk(k, s, j)
          \/ WriteFail(k, s)

\* consumer.rs 168-169: the id is turned back into a pointer and dereferenced.
\* No handler is running at that address: the stream it held has been dropped
\* (undefined behaviour).  The descriptor read there is closed (the write
\* fails), or has been handed out again (the bytes reach whichever connection
\* holds it), or the memory is gone (the process dies).
PubWriteDangling(k) ==
    /\ up
    /\ pc[k] = "pub_write"
    /\ \E s \in todo[k] :
          /\ LiveAt(s) = {}
          /\ \/ WriteFail(k, s)
             \/ \E j \in {i \in Conns : Running(i)} : WriteOk(k, s, j)
             \/ /\ up' = FALSE
                /\ UNCHANGED <<clients, subs, pc, addr, regId, connected, cmd,
                               snap, todo, cur, sent, rx, ioFailed,
                               removeCalls, ncmds,
                   offThread>>

\* state.rs 132-137, called from the fan-out loop
PubRemove(k) ==
    /\ up
    /\ pc[k] = "pub_remove"
    /\ subs' = RemoveSubscriber(subs, cur[k], cmd[k].channel)
    /\ pc' = [pc EXCEPT ![k] = NextPc(todo[k])]
    /\ UNCHANGED <<clients, addr, regId, connected, cmd, snap, todo, cur,
                   sent, rx, ioFailed, removeCalls, ncmds, up,
                   offThread>>

\* ping_handler 189-200, the reply is written
PingOk(k) ==
    /\ Dispatching(k, "PING", "", "")
    /\ rx' = [rx EXCEPT ![k] = Append(@, PONG)]
    /\ pc' = [pc EXCEPT ![k] = "flush"]
    /\ UNCHANGED <<clients, subs, addr, regId, connected, snap, todo, cur,
                   sent, ioFailed, removeCalls, up,
                   offThread>>

\* ping_handler 192-199, the write fails: a warning is printed
PingFail(k) ==
    /\ Dispatching(k, "PING", "", "")
    /\ ioFailed' = [ioFailed EXCEPT ![k] = TRUE]
    /\ pc' = [pc EXCEPT ![k] = "flush"]
    /\ UNCHANGED <<clients, subs, addr, regId, connected, snap, todo, cur,
                   sent, rx, removeCalls, up,
                   offThread>>

\* a verb that no arm matches ends the loop
UnknownDisconnects(k) ==
    /\ Dispatching(k, "NOPE", "", "")
    /\ connected' = [connected EXCEPT ![k] = FALSE]
    /\ pc' = [pc EXCEPT ![k] = "flush"]
    /\ UNCHANGED <<clients, subs, addr, regId, snap, todo, cur,
                   sent, rx, ioFailed, removeCalls, up,
                   offThread>>

\* consumer.rs 68: no arm matches the verb
Unknown(k) ==
    /\ Dispatching(k, "NOPE", "", "")
    /\ pc' = [pc EXCEPT ![k] = "flush"]
    /\ UNCHANGED <<clients, subs, addr, regId, connected, snap, todo, cur,
                   sent, rx, ioFailed, removeCalls, up,
                   offThread>>

\* consumer.rs 70-73 and 21: flush, clear the buffer, test `connected`
Flush(k) ==
    /\ up
    /\ pc[k] = "flush"
    /\ pc' = [pc EXCEPT ![k] = IF connected[k] THEN "read" ELSE "exit"]
    /\ cmd' = [cmd EXCEPT ![k] = NoCmd]
    /\ snap' = [snap EXCEPT ![k] = {}]
    /\ todo' = [todo EXCEPT ![k] = {}]
    /\ cur' = [cur EXCEPT ![k] = ListenerSlot]
    /\ sent' = [sent EXCEPT ![k] = NoSent]
    /\ UNCHANGED <<clients, subs, addr, regId, connected, rx, ioFailed,
                   removeCalls, ncmds, up,
                   offThread>>

\* The broker never looks into a message body, so bodies that no connection
\* holds or has received are interchangeable: the first of them is taken.
HeldMessages ==
    {m \in Messages :
        \E j \in Conns :
            cmd[j].message = m \/ \E i \in DOMAIN rx[j] : rx[j][i] = m}

NextMessages ==
    {MessageNames[i] : i \in {n \in 1..MaxMsgs :
        \A l \in 1..(n - 1) : MessageNames[l] \in HeldMessages}}

Next ==
    \/ \E k \in Conns : Accept(k)
    \/ \E k \in Conns : ReadError(k)
    \/ \E k \in Conns, ch \in Channels : Subscribe(k, ch)
    \/ \E k \in Conns : SubInsertChannel(k)
    \/ \E k \in Conns : SubInsertId(k)
    \/ \E k \in Conns, ch \in Channels : Unsubscribe(k, ch)
    \/ \E k \in Conns : UnsubRemove(k)
    \/ \E k \in Conns : Disconnect(k)
    \/ \E k \in Conns, ch \in Channels, m \in NextMessages : Publish(k, ch, m)
    \/ \E k \in Conns, ch \in Channels : PublishNoSpace(k, ch)
    \/ \E k \in Conns : PubClone(k)
    \/ \E k \in Conns : PubWriteLive(k)
    \/ \E k \in Conns : PubWriteDangling(k)
    \/ \E k \in Conns : PubRemove(k)
    \/ \E k \in Conns : PingOk(k)
    \/ \E k \in Conns : PingFail(k)
    \/ \E k \in Conns : Unknown(k)
    \/ \E k \in Conns : Flush(k)

Spec == Init /\ [][Next]_vars

(***************************************************************************)
(* The broker from the state it is in when the first connection has been   *)
(* accepted, has subscribed to the first channel and has then had a read   *)
(* fail: its handler has panicked (consumer.rs 23), its stream is dropped, *)
(* and its id is still in the channel's set.  The accept loop and the      *)
(* handler threads keep running.                                            *)
(***************************************************************************)
InitAfterError ==
    /\ clients = add_client(EmptyMap, ListenerSlot)
    /\ subs = add_subscription(EmptyMap, 1, ChannelNames[1])
    /\ pc = [k \in Conns |-> IF k = 1 THEN "panic" ELSE "none"]
    /\ addr = [k \in Conns |-> IF k = 1 THEN 1 ELSE ListenerSlot]
    /\ regId = [k \in Conns |-> ListenerSlot]
    /\ connected = [k \in Conns |-> k = 1]
    /\ cmd = [k \in Conns |-> NoCmd]
    /\ snap = [k \in Conns |-> {}]
    /\ todo = [k \in Conns |-> {}]
    /\ cur = [k \in Conns |-> ListenerSlot]
    /\ sent = [k \in Conns |-> NoSent]
    /\ rx = [k \in Conns |-> <<>>]
    /\ ioFailed = [k \in Conns |-> k = 1]
    /\ removeCalls = [k \in Conns |-> 0]
    /\ ncmds = 0
    /\ up = TRUE
    /\ lastCall = NoCall
    /\ stream = <<>>
    /\ wpc = "header"
    /\ msgLen = 0
    /\ dispatched = <<>>
    /\ written = <<>>
    /\ shortReads = 0
    /\ published = <<>>
    /\ socket = <<>>
    /\ callbacks = <<>>
    /\ locks = [m \in Mutexes |-> 0]
    /\ lpc = [t \in Threads |-> "idle"]
    /\ larg = [t \in Threads |-> NoArg]

SpecAfterError == InitAfterError /\ [][Next]_vars /\ WF_vars(Next)

(***************************************************************************)
(* Handler threads that only subscribe: the calls of add_subscription made *)
(* concurrently by the handlers of different connections.                  *)
(***************************************************************************)
NextSub ==
    \/ \E k \in Conns : Accept(k)
    \/ \E k \in Conns, ch \in Channels : Subscribe(k, ch)
    \/ \E k \in Conns : SubInsertChannel(k)
    \/ \E k \in Conns : SubInsertId(k)
    \/ \E k \in Conns : Flush(k)

SpecSub == Init /\ [][NextSub]_vars

(***************************************************************************)
(* Handler threads that subscribe and publish, every write succeeding and  *)
(* no connection ending: what a connection gets back of its own commands.   *)
(* The handler threads are scheduled by the operating system: a thread that *)
(* can take a step takes it in the end.                                     *)
(***************************************************************************)
\* consumer.rs 165-182: the write to a subscriber whose handler runs succeeds
PubWriteOk(k) ==
    /\ up
    /\ pc[k] = "pub_write"
    /\ \E s \in todo[k] : \E j \in LiveAt(s) : WriteOk(k, s, j)

NextOrder ==
    \/ \E k \in Conns : Accept(k)
    \/ \E k \in Conns, ch \in Channels : Subscribe(k, ch)
    \/ \E k \in Conns : SubInsertChannel(k)
    \/ \E k \in Conns : SubInsertId(k)
    \/ \E k \in Conns, ch \in Channels, m \in Messages : Publish(k, ch, m)
    \/ \E k \in Conns : PubClone(k)
    \/ \E k \in Conns : PubWriteOk(k)
    \/ \E k \in Conns : Flush(k)

SpecOrder == Init /\ [][NextOrder]_vars /\ WF_vars(NextOrder)

(***************************************************************************)
(* Bytes.  A byte is a one-character string, the zero byte is written Nul;  *)
(* a text is the sequence of its bytes.                                    *)
(***************************************************************************)
Nul == "NUL"
Space == " "
Whitespace == {" ", "\n", "\t", "\r"}
Digits == <<"0", "1", "2", "3", "4", "5", "6", "7", "8", "9">>

\* consumer.rs 22, client.rs 101: the size of the length header
HeaderLen == 64

Repeat(c, n) == [i \in 1..n |-> c]

\* usize::to_string
RECURSIVE ToDigits(_)
ToDigits(n) ==
    IF n < 10 THEN <<Digits[n + 1]>>
    ELSE ToDigits(n \div 10) \o <<Digits[(n % 10) + 1]>>

\* client.rs 100-106: the decimal length, padded with spaces to 64 bytes
EncodeHeader(n) ==
    ToDigits(n) \o Repeat(Space, HeaderLen - Len(ToDigits(n)))

\* consumer.rs 22-23, 51-54: a buffer of `want` zero bytes whose first bytes
\* the read has overwritten with `data`
Filled(data, want) == data \o Repeat(Nul, want - Len(data))

\* consumer.rs 91-93
is_buffer_empty(buffer) == \A i \in DOMAIN buffer : buffer[i] = Nul

\* the position of the first character of s that is not white space
\* (Len(s) + 1: none)
FirstKept(s) ==
    IF \A i \in DOMAIN s : s[i] \in Whitespace THEN Len(s) + 1
    ELSE CHOOSE i \in DOMAIN s :
             s[i] \notin Whitespace /\ \A j \in 1..(i - 1) : s[j] \in Whitespace

\* str::trim_start (the argument is evaluated before it is taken apart)
trim_start(s) ==
    LET from[x \in {s}] == SubSeq(x, FirstKept(x), Len(x)) IN from[s]

\* the position of the last character of s that is not white space (0: none)
LastKept(s) ==
    IF \A i \in DOMAIN s : s[i] \in Whitespace THEN 0
    ELSE CHOOSE i \in DOMAIN s :
             /\ s[i] \notin Whitespace
             /\ \A j \in (i + 1)..Len(s) : s[j] \in Whitespace

\* str::trim_end
trim_end(s) ==
    LET upto[x \in {s}] == SubSeq(x, 1, LastKept(x)) IN upto[s]

\* str::trim: white space is taken off both ends (a zero byte is not white
\* space)
trim(s) == trim_end(trim_start(s))

IsDigit(c) == \E d \in DOMAIN Digits : Digits[d] = c

DigitValue(c) == (CHOOSE d \in DOMAIN Digits : Digits[d] = c) - 1

RECURSIVE DecimalValue(_)
DecimalValue(s) ==
    IF s = <<>> THEN 0
    ELSE 10 * DecimalValue(SubSeq(s, 1, Len(s) - 1)) + DigitValue(s[Len(s)])

\* str::parse::<usize>: an optional "+" and at least one digit, nothing else;
\* ParseError for the Err case (the lengths of the model stay far below
\* usize::MAX)
ParseError == [ok |-> FALSE, value |-> 0]

parse_usize(s) ==
    LET digits == IF s # <<>> /\ Head(s) = "+" THEN Tail(s) ELSE s
    IN  IF digits # <<>> /\ \A i \in DOMAIN digits : IsDigit(digits[i])
        THEN [ok |-> TRUE, value |-> DecimalValue(digits)]
        ELSE ParseError

\* consumer.rs 32-48: the length a header buffer stands for
message_length(buffer) ==
    LET length[x \in {trim(buffer)}] == parse_usize(x)
    IN  length[trim(buffer)]

\* str::find(" "): the position of the first space, 0 when there is none
find(s) ==
    LET first[x \in {s}] ==
            IF \A i \in DOMAIN x : x[i] # Space THEN 0
            ELSE CHOOSE i \in DOMAIN x :
                     x[i] = Space /\ \A j \in 1..(i - 1) : x[j] # Space
    IN  first[s]

\* runs of spaces give no empty pieces
RECURSIVE split_skipping_empty(_)
split_skipping_empty(s) ==
    LET pieces[x \in {s}] ==
            IF find(x) = 0 THEN <<x>>
            ELSE IF find(x) = 1 THEN split_skipping_empty(Tail(x))
            ELSE <<SubSeq(x, 1, find(x) - 1)>>
                     \o split_skipping_empty(SubSeq(x, find(x) + 1, Len(x)))
    IN  pieces[s]

\* str::split(" "): the pieces between the spaces, empty pieces included
RECURSIVE split(_)
split(s) ==
    LET pieces[x \in {s}] ==
            IF find(x) = 0 THEN <<x>>
            ELSE <<SubSeq(x, 1, find(x) - 1)>>
                     \o split(SubSeq(x, find(x) + 1, Len(x)))
    IN  pieces[s]

\* [&str]::join(" ")
RECURSIVE join(_)
join(parts) ==
    IF parts = <<>> THEN <<>>
    ELSE IF Len(parts) = 1 THEN parts[1]
    ELSE parts[1] \o <<Space>> \o join(Tail(parts))

\* consumer.rs 78-84
get_message_components(message) ==
    <<Head(split(message)), join(Tail(split(message)))>>

\* consumer.rs 138-147: publish_handler's channel and message; ok is FALSE
\* when the argument has no space (the handler returns)
publish_components(message) ==
    IF find(message) = 0
    THEN [ok |-> FALSE, channel |-> <<>>, message |-> <<>>]
    ELSE [ok |-> TRUE,
          channel |-> SubSeq(message, 1, find(message) - 1),
          message |-> SubSeq(message, find(message) + 1, Len(message))]

\* consumer.rs 156-161: the decimal length of the message, padded with spaces
\* to 64 bytes
msg_size_buffer(message) == EncodeHeader(Len(message))

\* the length header is written before the message
msg_bytes_framed(message) == msg_size_buffer(message) \o message

\* consumer.rs 163, 173: what write_all is given for each subscriber, the
\* bytes of the message; msg_size_buffer is built and never written
msg_bytes(message) == message

\* a byte that is no UTF-8 on its own (0xFF)
InvalidByte == "0xFF"

\* String::from_utf8: Err when the bytes are not UTF-8
from_utf8(bytes) ==
    [ok |-> \A i \in DOMAIN bytes : bytes[i] # InvalidByte, value |-> bytes]

\* consumer.rs 60-67: the verbs the match compares with
SUBSCRIBE == <<"S", "U", "B", "S", "C", "R", "I", "B", "E">>
UNSUBSCRIBE == <<"U", "N", "S", "U", "B", "S", "C", "R", "I", "B", "E">>
DISCONNECT == <<"D", "I", "S", "C", "O", "N", "N", "E", "C", "T">>
PUBLISH == <<"P", "U", "B", "L", "I", "S", "H">>
PING == <<"P", "I", "N", "G">>

\* str::to_uppercase on the letters the payloads of the model are made of
Upper(c) ==
    CASE c = "i" -> "I"
      [] c = "n" -> "N"
      [] c = "g" -> "G"
      [] c = "s" -> "S"
      [] c = "u" -> "U"
      [] c = "b" -> "B"
      [] c = "c" -> "C"
      [] c = "r" -> "R"
      [] c = "e" -> "E"
      [] c = "p" -> "P"
      [] OTHER -> c

to_uppercase(s) == [i \in DOMAIN s |-> Upper(s[i])]

\* consumer.rs 59-69: match handler.as_str()
Match(handler) ==
    CASE handler = SUBSCRIBE -> "subscribe_handler"
      [] handler = UNSUBSCRIBE -> "unsubscribe_handler"
      [] handler = DISCONNECT -> "disconnect_handler"
      [] handler = PUBLISH -> "publish_handler"
      [] handler = PING -> "ping_handler"
      [] OTHER -> "unknown"

\* consumer.rs 56-69: what the loop does with a payload: the components, the
\* arm taken and, for PUBLISH, publish_handler's channel and message and the
\* bytes its loop writes to each subscriber of the channel
Dispatch(payload) ==
    LET parts == get_message_components(payload)
    IN  [payload |-> payload,
         handler |-> parts[1],
         message |-> parts[2],
         arm |-> Match(parts[1]),
         publish |-> publish_components(parts[2]),
         fanout |-> IF Match(parts[1]) = "publish_handler"
                       /\ publish_components(parts[2]).ok
                    THEN msg_bytes(publish_components(parts[2]).message)
                    ELSE <<>>]

\* the payloads clients send: the empty one, verbs in upper, mixed and lower
\* case, a message with a run of spaces, one of 64 bytes, and one that is
\* not UTF-8
Payloads ==
    { <<>>,
      PING,
      <<"P", "i", "n", "g">>,
      SUBSCRIBE \o <<" ", "a">>,
      <<"s", "u", "b", "s", "c", "r", "i", "b", "e", " ", "a">>,
      DISCONNECT,
      PUBLISH \o <<" ", "a", " ", "x", " ", " ", "y">>,
      PUBLISH \o <<" ", "a", " ">> \o Repeat("z", HeaderLen - 10),
      <<InvalidByte>> }

\* "abc" and 61 spaces: a header that is no length
MalformedHeader == <<"a", "b", "c">> \o Repeat(Space, HeaderLen - 3)

\* bytes that follow a malformed header
Junk == {<<>>, <<"x">>}

\* how many bytes a read may return when the transport hands over only a
\* part of the bytes that have arrived
ShortSizes == {1}

(***************************************************************************)
(* One connection at the level of bytes: the client writes frames to the   *)
(* connection (client.rs, Client::send), the consumer loop reads them       *)
(* (consumer.rs 21-73).  `read` returns as many bytes as fit the buffer     *)
(* and have arrived, or fewer when the transport hands over a part only;    *)
(* its return value is dropped, so the loop goes on with the whole buffer. *)
(***************************************************************************)
regVars == <<clients, subs, threadVars, lastCall, lineVars, lockVars>>

Min(a, b) == IF a < b THEN a ELSE b

Last(s) == s[Len(s)]

\* client.rs 96-113: no send is under way
ClientIdle == IF written = <<>> THEN TRUE ELSE Last(written).done

\* client.rs 100-109: the header of a frame is written
ClientWriteHeader(p) ==
    /\ Len(written) < MaxFrames
    /\ ClientIdle
    /\ stream' = stream \o EncodeHeader(Len(p))
    /\ written' = Append(written,
                         [kind |-> "frame", payload |-> p, done |-> FALSE])
    /\ UNCHANGED <<wpc, msgLen, dispatched, shortReads, regVars>>

\* client.rs 112: the payload is written
ClientWritePayload ==
    /\ written # <<>>
    /\ ~Last(written).done
    /\ stream' = stream \o Last(written).payload
    /\ written' = [written EXCEPT ![Len(written)].done = TRUE]
    /\ UNCHANGED <<wpc, msgLen, dispatched, shortReads, regVars>>

\* a peer that does not use Client::send writes 64 bytes that are no length,
\* and bytes j after them
ClientWriteMalformed(j) ==
    /\ Len(written) < MaxFrames
    /\ ClientIdle
    /\ stream' = stream \o MalformedHeader \o j
    /\ written' = Append(written,
                         [kind |-> "malformed", payload |-> j, done |-> TRUE])
    /\ UNCHANGED <<wpc, msgLen, dispatched, shortReads, regVars>>

\* the byte counts Read::read may return for a buffer of `want` bytes
ReadSizes(want) ==
    {Min(want, Len(stream))}
        \cup IF shortReads < MaxShort
             THEN {n \in ShortSizes : n < Min(want, Len(stream))}
             ELSE {}

\* consumer.rs 23, 54: client.read(&mut buf): n bytes leave the connection
Reading(n, want) ==
    /\ want = 0 \/ stream # <<>>
    /\ n \in ReadSizes(want)
    /\ stream' = SubSeq(stream, n + 1, Len(stream))
    /\ shortReads' = IF n < Min(want, Len(stream))
                     THEN shortReads + 1 ELSE shortReads

\* the framing error ends the loop
HeaderErrorFatal(n) ==
    /\ wpc = "header"
    /\ Reading(n, HeaderLen)
    /\ ~message_length(Filled(SubSeq(stream, 1, n), HeaderLen)).ok
    /\ wpc' = "exit"
    /\ UNCHANGED <<msgLen, dispatched, written, regVars>>

\* consumer.rs 22-34: the header is read and is a length
HeaderOk(n) ==
    /\ wpc = "header"
    /\ Reading(n, HeaderLen)
    /\ message_length(Filled(SubSeq(stream, 1, n), HeaderLen)).ok
    /\ msgLen' = message_length(Filled(SubSeq(stream, 1, n), HeaderLen)).value
    /\ wpc' = "payload"
    /\ UNCHANGED <<dispatched, written, regVars>>

\* consumer.rs 35-40: the header is no length: `continue`
HeaderError(n) ==
    /\ wpc = "header"
    /\ Reading(n, HeaderLen)
    /\ ~message_length(Filled(SubSeq(stream, 1, n), HeaderLen)).ok
    /\ UNCHANGED <<wpc, msgLen, dispatched, written, regVars>>

\* consumer.rs 51-72: the payload is read into a buffer of message_length
\* zero bytes and dispatched; DISCONNECT ends the loop
ReadPayload(n) ==
    /\ wpc = "payload"
    /\ Reading(n, msgLen)
    /\ from_utf8(Filled(SubSeq(stream, 1, n), msgLen)).ok
    /\ dispatched' = Append(dispatched,
                            Dispatch(Filled(SubSeq(stream, 1, n), msgLen)))
    /\ wpc' = IF Last(dispatched').arm = "disconnect_handler"
              THEN "exit" ELSE "header"
    /\ msgLen' = 0
    /\ UNCHANGED <<written, regVars>>

\* consumer.rs 56-57: String::from_utf8(message).unwrap() on a payload that
\* is not UTF-8: the handler thread panics
ReadPayloadPanics(n) ==
    /\ wpc = "payload"
    /\ Reading(n, msgLen)
    /\ ~from_utf8(Filled(SubSeq(stream, 1, n), msgLen)).ok
    /\ wpc' = "panic"
    /\ msgLen' = 0
    /\ UNCHANGED <<dispatched, written, regVars>>

NextWire ==
    \/ \E p \in Payloads : ClientWriteHeader(p)
    \/ ClientWritePayload
    \/ \E j \in Junk : ClientWriteMalformed(j)
    \/ \E n \in 0..HeaderLen : HeaderOk(n)
    \/ \E n \in 0..HeaderLen : HeaderError(n)
    \/ \E n \in 0..HeaderLen : ReadPayload(n)
    \/ \E n \in 0..HeaderLen : ReadPayloadPanics(n)

SpecWire == Init /\ [][NextWire]_vars

(***************************************************************************)
(* The same connection when the peer may close its side without sending    *)
(* DISCONNECT: once the bytes written before have been read, every read    *)
(* returns Ok(0) at once and leaves its buffer as it was, all zero.         *)
(***************************************************************************)
Closed == IF written = <<>> THEN FALSE ELSE Last(written).kind = "closed"

\* the peer closes its side of the connection, be it between the two writes
\* of a send
ClientClose ==
    /\ ~Closed
    /\ written' = Append(written,
                         [kind |-> "closed", payload |-> <<>>, done |-> TRUE])
    /\ UNCHANGED <<stream, wpc, msgLen, dispatched, shortReads, regVars>>

\* consumer.rs 22-27: the header read returns no bytes, the window is all
\* zero: `continue`, and the loop reads again
HeaderEof ==
    /\ wpc = "header"
    /\ Closed
    /\ stream = <<>>
    /\ is_buffer_empty(Filled(<<>>, HeaderLen))
    /\ UNCHANGED vars

\* consumer.rs 51-72: the payload read returns no bytes: the buffer of
\* message_length zero bytes is dispatched
PayloadEof ==
    /\ wpc = "payload"
    /\ Closed
    /\ stream = <<>>
    /\ msgLen > 0
    /\ dispatched' = Append(dispatched, Dispatch(Filled(<<>>, msgLen)))
    /\ wpc' = "header"
    /\ msgLen' = 0
    /\ UNCHANGED <<stream, written, shortReads, regVars>>

NextClose ==
    \/ ~Closed /\ \E p \in Payloads : ClientWriteHeader(p)
    \/ ~Closed /\ ClientWritePayload
    \/ ClientClose
    \/ \E n \in 0..HeaderLen : HeaderOk(n)
    \/ \E n \in 0..HeaderLen : HeaderError(n)
    \/ \E n \in 0..HeaderLen : ReadPayload(n)
    \/ \E n \in 0..HeaderLen : ReadPayloadPanics(n)
    \/ HeaderEof
    \/ PayloadEof

\* the handler thread and the client keep running
SpecClose == Init /\ [][NextClose]_vars /\ WF_vars(NextClose)

(***************************************************************************)
(* Delivery, end to end: the command-line client publishes a text on       *)
(* channel a (cli.rs handle_messages, client.rs publish and send), the     *)
(* consumer loop dispatches the payload and publish_handler writes to a    *)
(* subscriber of a, whose client runs listen (client.rs 168-181).          *)
(***************************************************************************)
MaxPublished == 3

Newline == "\n"

\* the texts given to the client with --message: empty, one word, with a
\* space, with a newline inside
Texts == {<<>>, <<"x">>, <<"x", Space, "y">>, <<"x", Newline, "y">>}

\* client.rs 154-160: format!("PUBLISH {} {}", channel, message)
publish(channel, message) ==
    PUBLISH \o <<Space>> \o channel \o <<Space>> \o message

\* cli.rs 171-183: a newline is pushed onto the message before publish
handle_messages(channel, message) == publish(channel, message \o <<Newline>>)

\* where the first newline of s is (0: none)
RECURSIVE FindNewline(_)
FindNewline(s) ==
    IF s = <<>> THEN 0
    ELSE IF Head(s) = Newline THEN 1
    ELSE IF FindNewline(Tail(s)) = 0 THEN 0
    ELSE 1 + FindNewline(Tail(s))

\* BufRead::read_line: the bytes up to the first newline, the newline included
read_line(s) == SubSeq(s, 1, FindNewline(s))

\* String::pop: the last character is taken off
pop(s) == IF s = <<>> THEN s ELSE SubSeq(s, 1, Len(s) - 1)

\* the client sends the frame of handle_messages(a, m); the consumer loop
\* decodes and dispatches its payload, and publish_handler writes to the
\* subscriber's connection
PublishDelivered(m) ==
    /\ Len(published) < MaxPublished
    /\ published' = Append(published, m)
    /\ socket' = socket \o Dispatch(handle_messages(<<"a">>, m)).fanout
    /\ UNCHANGED <<callbacks, clients, subs, threadVars, lastCall, wireVars,
                   lockVars>>

\* client.rs 172-180: one turn of the listen loop, once a line has arrived
Listen ==
    /\ FindNewline(socket) > 0
    /\ socket' = SubSeq(socket, Len(read_line(socket)) + 1, Len(socket))
    /\ callbacks' = IF Len(read_line(socket)) > 0
                    THEN Append(callbacks, pop(read_line(socket)))
                    ELSE callbacks
    /\ UNCHANGED <<published, clients, subs, threadVars, lastCall, wireVars,
                   lockVars>>

NextDelivery ==
    \/ \E m \in Texts : PublishDelivered(m)
    \/ Listen

SpecDelivery == Init /\ [][NextDelivery]_vars

(***************************************************************************)
(* The registry at the level of its two mutexes (state.rs 11-17).  Each    *)
(* thread calls the registry functions with the id of its own stream; a    *)
(* call takes one step to get a lock (Mutex::lock blocks while another     *)
(* guard is alive) and one step to do what it does under the lock.  The    *)
(* guard of a `X.lock().unwrap().f()` statement is dropped at the end of   *)
(* the statement; a guard bound with `let` lives to the end of the         *)
(* function.                                                                *)
(***************************************************************************)
LockChannels == {"a"}

\* the mutex each lock() of state.rs is called on
Needs(p) ==
    IF p \in {"ac_check", "ac_insert", "rc_check", "rc_guard"}
    THEN "CLIENTS" ELSE "SUBSCRIPTIONS"

LockPoints ==
    {"ac_check", "ac_insert", "rc_check", "rc_guard", "rs_check", "rs_remove",
     "as_check", "as_insert_channel", "as_insert_id", "gs_check", "gs_clone"}

Holding(t, m) == locks[m] = t

\* the lock() the thread is at has returned: it is under the guard
Acquired(t) == larg[t].got /\ Holding(t, Needs(lpc[t]))

\* the thread goes on to its next statement
Go(t) == [larg EXCEPT ![t].got = FALSE]

\* the guard on m is dropped
Release(m) == [locks EXCEPT ![m] = 0]

\* where a call of remove_subscription returns to
Return(t) == IF larg[t].nested THEN "rc_loop" ELSE "idle"

offLocks == <<threadVars, lastCall, wireVars, lineVars>>

\* a thread calls add_client, remove_client, add_subscription,
\* remove_subscription or get_subscribers
LkCall(t, entry, ch) ==
    /\ lpc[t] = "idle"
    /\ lpc' = [lpc EXCEPT ![t] = entry]
    /\ larg' = [larg EXCEPT ![t] =
                  [channel |-> IF entry \in {"as_check", "rs_check", "gs_check"}
                               THEN ch ELSE "",
                   todo |-> {}, nested |-> FALSE, got |-> FALSE]]
    /\ UNCHANGED <<clients, subs, locks, offLocks>>

\* Mutex::lock returns: no guard on the mutex is alive, the caller's own
\* included
LkAcquire(t) ==
    /\ lpc[t] \in LockPoints
    /\ ~larg[t].got
    /\ locks[Needs(lpc[t])] = 0
    /\ locks' = [locks EXCEPT ![Needs(lpc[t])] = t]
    /\ larg' = [larg EXCEPT ![t].got = TRUE]
    /\ UNCHANGED <<clients, subs, lpc, offLocks>>

\* the guard of is_registered is not dropped
LkAddClientCheckKeeping(t) ==
    /\ lpc[t] = "ac_check" /\ Acquired(t)
    /\ lpc' = [lpc EXCEPT ![t] = IF is_registered(clients, t)
                                 THEN "idle" ELSE "ac_insert"]
    /\ larg' = Go(t)
    /\ UNCHANGED <<clients, subs, locks, offLocks>>

\* state.rs 50-52: is_registered inside add_client
LkAddClientCheck(t) ==
    /\ lpc[t] = "ac_check" /\ Acquired(t)
    /\ locks' = Release("CLIENTS")
    /\ lpc' = [lpc EXCEPT ![t] = IF is_registered(clients, t)
                                 THEN "idle" ELSE "ac_insert"]
    /\ larg' = Go(t)
    /\ UNCHANGED <<clients, subs, offLocks>>

\* state.rs 55-58
LkAddClientInsert(t) ==
    /\ lpc[t] = "ac_insert" /\ Acquired(t)
    /\ clients' = insert(clients, t, {})
    /\ locks' = Release("CLIENTS")
    /\ lpc' = [lpc EXCEPT ![t] = "idle"]
    /\ larg' = Go(t)
    /\ UNCHANGED <<subs, offLocks>>

\* state.rs 68-70: is_registered inside remove_client
LkRemoveClientCheck(t) ==
    /\ lpc[t] = "rc_check" /\ Acquired(t)
    /\ locks' = Release("CLIENTS")
    /\ lpc' = [lpc EXCEPT ![t] = IF is_registered(clients, t)
                                 THEN "rc_guard" ELSE "idle"]
    /\ larg' = Go(t)
    /\ UNCHANGED <<clients, subs, offLocks>>

\* state.rs 73-76: `let mut clients = CLIENTS.lock().unwrap()` and the
\* client's set of channels; the guard stays alive
LkRemoveClientGuard(t) ==
    /\ lpc[t] = "rc_guard" /\ Acquired(t)
    /\ larg' = [larg EXCEPT ![t] =
                  [channel |-> "", todo |-> clients[t], nested |-> TRUE,
                   got |-> FALSE]]
    /\ lpc' = [lpc EXCEPT ![t] = "rc_loop"]
    /\ UNCHANGED <<clients, subs, locks, offLocks>>

\* state.rs 80-86: the loop calls remove_subscription for the next channel
\* of the set; after the last one the entry is removed and the guard dropped
LkRemoveClientLoop(t) ==
    /\ lpc[t] = "rc_loop" /\ Holding(t, "CLIENTS")
    /\ IF larg[t].todo = {}
       THEN /\ clients' = remove(clients, t)
            /\ locks' = Release("CLIENTS")
            /\ lpc' = [lpc EXCEPT ![t] = "idle"]
            /\ larg' = [larg EXCEPT ![t] = NoArg]
       ELSE /\ \E ch \in larg[t].todo :
                  larg' = [larg EXCEPT ![t] =
                             [channel |-> ch, todo |-> larg[t].todo \ {ch},
                              nested |-> TRUE, got |-> FALSE]]
            /\ lpc' = [lpc EXCEPT ![t] = "rs_check"]
            /\ UNCHANGED <<clients, locks>>
    /\ UNCHANGED <<subs, offLocks>>

\* state.rs 127-129: is_channel_registered inside remove_subscription
LkRemoveSubCheck(t) ==
    /\ lpc[t] = "rs_check" /\ Acquired(t)
    /\ locks' = Release("SUBSCRIPTIONS")
    /\ lpc' = [lpc EXCEPT ![t] =
                 IF is_channel_registered(subs, larg[t].channel)
                 THEN "rs_remove" ELSE Return(t)]
    /\ larg' = Go(t)
    /\ UNCHANGED <<clients, subs, offLocks>>

\* state.rs 132-137
LkRemoveSubRemove(t) ==
    /\ lpc[t] = "rs_remove" /\ Acquired(t)
    /\ subs' = RemoveSubscriber(subs, t, larg[t].channel)
    /\ locks' = Release("SUBSCRIPTIONS")
    /\ lpc' = [lpc EXCEPT ![t] = Return(t)]
    /\ larg' = Go(t)
    /\ UNCHANGED <<clients, offLocks>>

\* state.rs 106: is_channel_registered inside add_subscription
LkSubCheck(t) ==
    /\ lpc[t] = "as_check" /\ Acquired(t)
    /\ locks' = Release("SUBSCRIPTIONS")
    /\ lpc' = [lpc EXCEPT ![t] =
                 IF is_channel_registered(subs, larg[t].channel)
                 THEN "as_insert_id" ELSE "as_insert_channel"]
    /\ larg' = Go(t)
    /\ UNCHANGED <<clients, subs, offLocks>>

\* state.rs 107-110
LkSubInsertChannel(t) ==
    /\ lpc[t] = "as_insert_channel" /\ Acquired(t)
    /\ subs' = InsertChannel(subs, larg[t].channel)
    /\ locks' = Release("SUBSCRIPTIONS")
    /\ lpc' = [lpc EXCEPT ![t] = "as_insert_id"]
    /\ larg' = Go(t)
    /\ UNCHANGED <<clients, offLocks>>

\* the channel is recorded in the client's own set as well
LkSubInsertIdRecording(t) ==
    /\ lpc[t] = "as_insert_id" /\ Acquired(t)
    /\ subs' = InsertSubscriber(subs, t, larg[t].channel)
    /\ clients' = IF is_registered(clients, t)
                  THEN [clients EXCEPT ![t] = @ \cup {larg[t].channel}]
                  ELSE clients
    /\ locks' = Release("SUBSCRIPTIONS")
    /\ lpc' = [lpc EXCEPT ![t] = "idle"]
    /\ larg' = [larg EXCEPT ![t] = NoArg]
    /\ UNCHANGED offLocks

\* state.rs 112-118: the id is inserted under the guard `subscriptions`,
\* which is dropped when the function returns; CLIENTS is not touched
LkSubInsertId(t) ==
    /\ lpc[t] = "as_insert_id" /\ Acquired(t)
    /\ subs' = InsertSubscriber(subs, t, larg[t].channel)
    /\ locks' = Release("SUBSCRIPTIONS")
    /\ lpc' = [lpc EXCEPT ![t] = "idle"]
    /\ larg' = [larg EXCEPT ![t] = NoArg]
    /\ UNCHANGED <<clients, offLocks>>

\* state.rs 144-146: is_channel_registered inside get_subscribers
LkGetCheck(t) ==
    /\ lpc[t] = "gs_check" /\ Acquired(t)
    /\ locks' = Release("SUBSCRIPTIONS")
    /\ lpc' = [lpc EXCEPT ![t] =
                 IF is_channel_registered(subs, larg[t].channel)
                 THEN "gs_clone" ELSE "idle"]
    /\ larg' = Go(t)
    /\ UNCHANGED <<clients, subs, offLocks>>

\* state.rs 149: the set is cloned under the lock
LkGetClone(t) ==
    /\ lpc[t] = "gs_clone" /\ Acquired(t)
    /\ locks' = Release("SUBSCRIPTIONS")
    /\ lpc' = [lpc EXCEPT ![t] = "idle"]
    /\ larg' = [larg EXCEPT ![t] = NoArg]
    /\ UNCHANGED <<clients, subs, offLocks>>

\* the thread is inside lock() and a guard on that mutex is alive
Waiting(t) ==
    /\ lpc[t] \in LockPoints
    /\ ~larg[t].got
    /\ locks[Needs(lpc[t])] # 0

\* some threads wait for locks that only threads among them hold
Deadlocked ==
    \E S \in SUBSET Threads :
        /\ S # {}
        /\ \A t \in S : Waiting(t) /\ locks[Needs(lpc[t])] \in S

NextLocks ==
    \/ \E t \in Threads, ch \in LockChannels :
          \E entry \in {"ac_check", "rc_check", "as_check", "rs_check",
                        "gs_check"} :
              LkCall(t, entry, ch)
    \/ \E t \in Threads : LkAcquire(t)
    \/ \E t \in Threads : LkAddClientCheck(t)
    \/ \E t \in Threads : LkAddClientInsert(t)
    \/ \E t \in Threads : LkRemoveClientCheck(t)
    \/ \E t \in Threads : LkRemoveClientGuard(t)
    \/ \E t \in Threads : LkRemoveClientLoop(t)
    \/ \E t \in Threads : LkRemoveSubCheck(t)
    \/ \E t \in Threads : LkRemoveSubRemove(t)
    \/ \E t \in Threads : LkSubCheck(t)
    \/ \E t \in Threads : LkSubInsertChannel(t)
    \/ \E t \in Threads : LkSubInsertId(t)
    \/ \E t \in Threads : LkGetCheck(t)
    \/ \E t \in Threads : LkGetClone(t)

SpecLocks == Init /\ [][NextLocks]_vars

(***************************************************************************)
(* Claims.                                                                 *)
(***************************************************************************)
Range(f) == {f[i] : i \in DOMAIN f}

\* C1: after any single-threaded sequence of add_client, add_subscription,
\* remove_subscription and remove_client calls the two maps agree: for every
\* client c of the client map and every channel ch, ch is in c's channel set
\* iff c is in get_subscribers(ch).
C1_MapsAgree ==
    \A id \in DOMAIN clients : \A ch \in Channels :
        ch \in clients[id] <=> id \in get_subscribers(subs, ch)

\* C2: a PUBLISH whose writes all succeed delivers one copy of the message to
\* the connection of every id of the snapshot and to no other connection:
\* every write made so far reached the connection whose id is the subscriber
\* it was meant for, no subscriber was written to twice, and when the loop is
\* over every subscriber of the snapshot has been written to.
C2_FanOut ==
    \A k \in Conns :
        (cmd[k].verb = "PUBLISH" /\ sent[k].failed = {}) =>
            /\ \A i \in DOMAIN sent[k].to : sent[k].to[i].id = sent[k].to[i].sub
            /\ \A i, j \in DOMAIN sent[k].to :
                   i # j => sent[k].to[i].conn # sent[k].to[j].conn
            /\ pc[k] = "flush" =>
                   {sent[k].to[i].sub : i \in DOMAIN sent[k].to} = snap[k]

\* C3: when remove_client(c) is called for a registered client c, afterwards
\* get_subscribers(ch) excludes c for every channel c had subscribed to.
C3_Cascade ==
    [][\A id \in Ids :
          (CallRemoveClient(id) /\ is_registered(clients, id)) =>
              \A ch \in Channels :
                  id \in get_subscribers(subs, ch) =>
                      id \notin get_subscribers(subs', ch)]_vars

\* C4: a handler that has left its loop through DISCONNECT has removed the
\* client entry that was registered for its connection at accept time.
C4_Disconnect ==
    \A k \in Conns : pc[k] = "exit" => ~is_registered(clients, regId[k])

\* C5: once a read or write on a handler's own socket has failed, the handler
\* has left its loop and has called remove_client exactly once.
C5_ErrorCleanup ==
    \A k \in Conns :
        (ioFailed[k] /\ pc[k] # "flush") =>
            (~Running(k) /\ removeCalls[k] = 1)

C7_FailureUnsubscribesOnly ==
    [][\A k \in Conns :
          /\ (pc[k] = "pub_write" /\ sent'[k].failed # sent[k].failed) =>
                 (clients' = clients /\ subs' = subs)
          /\ (pc[k] = "pub_remove" /\ pc'[k] # "pub_remove") =>
                 /\ clients' = clients
                 /\ DOMAIN subs' = DOMAIN subs
                 /\ cur[k] \notin get_subscribers(subs', cmd[k].channel)
                 /\ \A ch \in Channels \ {cmd[k].channel} :
                        get_subscribers(subs', ch) = get_subscribers(subs, ch)
                 /\ get_subscribers(subs', cmd[k].channel) \ {cur[k]}
                        = get_subscribers(subs, cmd[k].channel) \ {cur[k]}]_vars

C7_Witness ==
    \E k \in Conns : \E s \in sent[k].failed :
        /\ cmd[k].verb = "PUBLISH"
        /\ pc[k] \in {"pub_write", "flush"}
        /\ s \notin get_subscribers(subs, cmd[k].channel)
        /\ \E ch \in Channels \ {cmd[k].channel} :
               s \in get_subscribers(subs, ch)

\* C8: once two handlers have both returned from add_subscription for the
\* same channel, the channel's subscriber set holds both their ids.
C8_AtomicSubscribe ==
    \A k1, k2 \in Conns :
        (/\ k1 # k2
         /\ pc[k1] = "flush" /\ cmd[k1].verb = "SUBSCRIBE"
         /\ pc[k2] = "flush" /\ cmd[k2].verb = "SUBSCRIBE"
         /\ cmd[k1].channel = cmd[k2].channel) =>
            {addr[k1], addr[k2]} \subseteq get_subscribers(subs, cmd[k1].channel)

\* C9: the id under which the listener registered a connection is the id its
\* handler uses for the registry.
C9_StableIdentity ==
    \A k \in Conns : Running(k) => regId[k] = addr[k]

\* C10: dispatching PING writes exactly "PONG\n" to the handler's own
\* connection (or nothing, when that write fails), nothing to any other
\* connection, and leaves both registry maps unchanged.
C10_Ping ==
    [][\A k \in Conns :
          (pc[k] = "read" /\ cmd'[k].verb = "PING") =>
              /\ \/ rx'[k] = Append(rx[k], "PONG\n")
                 \/ (rx'[k] = rx[k] /\ ioFailed'[k])
              /\ \A j \in Conns \ {k} : rx'[j] = rx[j]
              /\ clients' = clients
              /\ subs' = subs]_vars

C10_Witness ==
    \E k \in Conns :
        /\ pc[k] = "flush"
        /\ cmd[k].verb = "PING"
        /\ rx[k] # <<>>
        /\ rx[k][Len(rx[k])] = "PONG\n"

\* C13: add_subscription is idempotent: after a call the id is in the
\* channel's set, and a call for an id that is already in the set leaves both
\* maps as they are.
C13_SubscribeIdempotent ==
    [][\A id \in SerialIds, ch \in Channels :
          CallAddSubscription(id, ch) =>
              /\ id \in get_subscribers(subs', ch)
              /\ id \in get_subscribers(subs, ch) =>
                     (subs' = subs /\ clients' = clients)]_vars

C13_Witness ==
    /\ lastCall.op = "add_subscription"
    /\ lastCall.noop

\* C15: remove_subscription for an id that is not in the channel's set, the
\* channel existing or not, leaves both maps as they are (the channel is not
\* created).
C15_UnsubscribeNoOp ==
    [][\A id \in SerialIds, ch \in Channels :
          (CallRemoveSubscription(id, ch)
               /\ id \notin get_subscribers(subs, ch)) =>
              (subs' = subs /\ clients' = clients)]_vars

C15_Witness ==
    /\ lastCall.op = "remove_subscription"
    /\ lastCall.noop
    /\ DOMAIN subs # Channels
    /\ DOMAIN subs # {}

\* C16: from every registry state, add_subscription(c, ch) followed by
\* remove_subscription(c, ch) leaves c out of the channel's set and ch out of
\* c's channel set, with the other members of ch and every other channel as
\* they were.
C16_SubscribeUnsubscribe ==
    \A id \in SerialIds, ch \in Channels :
        LET s2 == remove_subscription(add_subscription(subs, id, ch), id, ch)
        IN  /\ id \notin get_subscribers(s2, ch)
            /\ get_subscribers(s2, ch) = get_subscribers(subs, ch) \ {id}
            /\ \A other \in Channels \ {ch} :
                   get_subscribers(s2, other) = get_subscribers(subs, other)
            /\ is_registered(clients, id) => ch \notin clients[id]

C16_Witness ==
    /\ lastCall.op = "remove_subscription"
    /\ ~lastCall.noop
    /\ \E ch \in DOMAIN subs : subs[ch] # {}

\* C17: after add_client(c), c is registered; after remove_client(c), c is
\* not registered; remove_client for an id that is not registered changes
\* neither map.
C17_RegisterRemove ==
    [][\A id \in SerialIds :
          /\ CallAddClient(id) => is_registered(clients', id)
          /\ CallRemoveClient(id) =>
                 /\ ~is_registered(clients', id)
                 /\ ~is_registered(clients, id) =>
                        (clients' = clients /\ subs' = subs)]_vars

C17_Witness ==
    /\ lastCall.op = "remove_client"
    /\ ~lastCall.noop

\* C14: a PUBLISH to a channel that was never created, or whose subscriber
\* set is empty when it is read, writes to no connection, fails nothing,
\* leaves both maps as they are (the channel is not created) and returns to
\* the handler's loop with the publisher still connected.
C14_PublishNoSubscribers ==
    [][\A k \in Conns :
          (\/ /\ pc[k] = "read"
              /\ cmd'[k].message \in Messages
              /\ Publish(k, cmd'[k].channel, cmd'[k].message)
              /\ ~is_channel_registered(subs, cmd'[k].channel)
           \/ /\ pc[k] = "pub_clone"
              /\ PubClone(k)
              /\ get_subscribers(subs, cmd[k].channel) = {}) =>
              /\ rx' = rx
              /\ subs' = subs /\ clients' = clients
              /\ sent'[k] = NoSent
              /\ pc'[k] = "flush"
              /\ connected'[k] /\ ioFailed' = ioFailed /\ up']_vars

C14_Witness ==
    \E k \in Conns :
        /\ pc[k] = "flush"
        /\ cmd[k].verb = "PUBLISH" /\ cmd[k].message # ""
        /\ is_channel_registered(subs, cmd[k].channel)
        /\ subs[cmd[k].channel] = {}
        /\ sent[k] = NoSent
        /\ \E ch \in Channels : ~is_channel_registered(subs, ch)

\* C18: no step of the broker (subscribe, unsubscribe, remove_client, the
\* removal of a subscriber whose write failed) takes a channel key out of the
\* subscriptions map, also when the channel's set becomes empty.
C18_ChannelsNeverDeleted ==
    [][DOMAIN subs \subseteq DOMAIN subs']_vars

C18_Witness ==
    \E k \in Conns :
        /\ pc[k] = "flush"
        /\ cmd[k].verb = "UNSUBSCRIBE"
        /\ is_channel_registered(subs, cmd[k].channel)
        /\ subs[cmd[k].channel] = {}

\* the payloads of the frames Client::send has written whole, in order
FramesWritten == SelectSeq(written, LAMBDA u : u.kind = "frame" /\ u.done)

C12_RoundTrip ==
    (\A i \in DOMAIN written : written[i].kind = "frame") =>
        /\ Len(dispatched) <= Len(written)
        /\ \A i \in DOMAIN dispatched :
               dispatched[i].payload = written[i].payload

\* C19: the arm a payload is dispatched to is the arm of its verb written in
\* upper case.
C19_CaseInsensitive ==
    \A i \in DOMAIN dispatched :
        dispatched[i].arm = Match(to_uppercase(dispatched[i].handler))

\* C20: the verb is the payload up to its first space and the rest is all
\* that follows that space, byte for byte (a payload without a space is its
\* own verb, with an empty rest); publish_handler cuts the rest in the same
\* way into channel and message.
C20_SplitAtFirstSpace ==
    \A i \in DOMAIN dispatched :
        LET d == dispatched[i]
        IN  /\ Space \notin Range(d.handler)
            /\ IF Space \in Range(d.payload)
               THEN d.handler \o <<Space>> \o d.message = d.payload
               ELSE d.handler = d.payload /\ d.message = <<>>
            /\ (d.arm = "publish_handler" /\ Space \in Range(d.message)) =>
                   /\ d.publish.ok
                   /\ Space \notin Range(d.publish.channel)
                   /\ d.publish.channel \o <<Space>> \o d.publish.message
                          = d.message

C20_Witness ==
    \E i \in DOMAIN dispatched :
        /\ dispatched[i].arm = "publish_handler"
        /\ dispatched[i].publish.channel = <<"a">>
        /\ dispatched[i].publish.message = <<"x", " ", " ", "y">>

\* C21: a PUBLISH whose argument holds no space writes to no connection and
\* changes neither map; the handler returns to its loop, the publisher's
\* connection stays open and the loop reads the next frame.
C21_PublishNoSpace ==
    [][\A k \in Conns :
          /\ (/\ pc[k] = "read"
              /\ cmd'[k].verb = "PUBLISH"
              /\ PublishNoSpace(k, cmd'[k].channel)) =>
                 /\ rx' = rx
                 /\ subs' = subs /\ clients' = clients
                 /\ pc'[k] = "flush"
                 /\ connected'[k] /\ ioFailed' = ioFailed /\ up'
          /\ (/\ pc[k] = "flush"
              /\ cmd[k].verb = "PUBLISH" /\ cmd[k].message = ""
              /\ Flush(k)) => pc'[k] = "read"]_vars

C21_Witness ==
    \E k \in Conns :
        /\ pc[k] = "flush"
        /\ cmd[k].verb = "PUBLISH" /\ cmd[k].message = ""
        /\ \E ch \in Channels : get_subscribers(subs, ch) # {}

\* C22: a frame whose verb no arm matches changes neither map and writes to
\* no connection; the handler stays in its loop and reads the next frame.
C22_UnknownVerb ==
    [][\A k \in Conns :
          /\ (pc[k] = "read" /\ cmd'[k].verb = "NOPE" /\ Unknown(k)) =>
                 /\ rx' = rx
                 /\ subs' = subs /\ clients' = clients
                 /\ pc'[k] = "flush"
                 /\ connected'[k] /\ ioFailed' = ioFailed /\ up'
          /\ (pc[k] = "flush" /\ cmd[k].verb = "NOPE" /\ Flush(k)) =>
                 pc'[k] = "read"]_vars

C22_Witness ==
    \E k \in Conns :
        /\ pc[k] = "flush"
        /\ cmd[k].verb = "NOPE"
        /\ \E ch \in Channels : get_subscribers(subs, ch) # {}

\* connection k's handler has carried out the command `verb ch` and is about
\* to flush
Done(k, verb, ch) ==
    pc[k] = "flush" /\ cmd[k].verb = verb /\ cmd[k].channel = ch

\* C23: with no write failing and nobody unsubscribing, once a connection's
\* SUBSCRIBE ch has been carried out, every PUBLISH ch m it sends afterwards
\* is carried out with m written to the connection itself.
C23_SubscribeThenPublish ==
    \A k \in Conns, ch \in Channels :
        [](Done(k, "SUBSCRIBE", ch) =>
               [](Done(k, "PUBLISH", ch) =>
                      \E i \in DOMAIN sent[k].to : sent[k].to[i].conn = k))

\* C24: a connection error is isolated.  As long as no handler has left
\* through DISCONNECT, whatever read and write errors single connections have
\* had, the broker process is still up: the accept loop and the handlers of
\* the other connections go on.
C24_ErrorIsolated ==
    (\A k \in Conns : pc[k] # "exit" /\ connected[k] = (pc[k] # "none")) => up

C26_OneCallbackPerMessage ==
    socket = <<>> => callbacks = published

\* client.rs 100-112: the bytes Client::send has put on the connection for
\* the frames written from position i on: each header, and the payload once
\* it has been written
RECURSIVE Pending(_)
Pending(i) ==
    IF i > Len(written) THEN <<>>
    ELSE EncodeHeader(Len(written[i].payload))
             \o (IF written[i].done THEN written[i].payload ELSE <<>>)
             \o Pending(i + 1)

\* C27: when a client has written frames only, each time the loop is about to
\* read a header it has consumed the 64 header bytes and the N payload bytes
\* of every frame it has dispatched and no byte more or less: the bytes
\* still unread are the frames not yet dispatched, from their first byte, and
\* what was dispatched is what was sent.
C27_ExactConsumption ==
    ((\A i \in DOMAIN written : written[i].kind = "frame") /\ wpc = "header")
        => /\ Len(dispatched) <= Len(written)
           /\ stream = Pending(Len(dispatched) + 1)
           /\ \A i \in DOMAIN dispatched :
                  Len(dispatched[i].payload) = Len(written[i].payload)

\* C28: when publish_handler has returned, the publisher's own connection
\* has received bytes of this PUBLISH only if the publisher's id was in the
\* snapshot of the channel's subscribers, and, no write having failed, it has
\* received them if its id was in the snapshot.
C28_NoResponseToPublisher ==
    \A k \in Conns :
        (pc[k] = "flush" /\ cmd[k].verb = "PUBLISH") =>
            /\ (\E i \in DOMAIN sent[k].to : sent[k].to[i].conn = k)
                   => addr[k] \in snap[k]
            /\ (addr[k] \in snap[k] /\ sent[k].failed = {})
                   => \E i \in DOMAIN sent[k].to : sent[k].to[i].conn = k

\* C29: no thread ever holds the lock of the client map and the lock of the
\* channel map at the same time.
C29_LocksNeverNested ==
    \A t \in Threads :
        ~(Holding(t, "CLIENTS") /\ Holding(t, "SUBSCRIPTIONS"))

\* remove_client, the call that touches both maps, is in its loop under the
\* CLIENTS guard for a client that is subscribed, while another thread is
\* under the SUBSCRIPTIONS lock
C29_Witness ==
    \E t \in Threads, u \in Threads :
        /\ lpc[t] = "rc_loop"
        /\ Holding(t, "CLIENTS")
        /\ t \in get_subscribers(subs, "a")
        /\ u # t
        /\ Holding(u, "SUBSCRIPTIONS")

\* C30: while no connection has disconnected or ended, every accepted
\* connection has the entry it was registered under in the client registry,
\* and the registry holds as many ids as connections have been accepted.
C30_EntryPerConnection ==
    LET accepted == {k \in Conns : pc[k] # "none"}
    IN  (\A k \in accepted : Running(k) /\ connected[k]) =>
            /\ \A k \in accepted : is_registered(clients, regId[k])
            /\ Cardinality(DOMAIN clients) = Cardinality(accepted)

\* C31: every id in a channel's subscriber set is the id of a connection
\* whose handler is running, and so is every id a fan-out has still to
\* resolve and write to.
C31_SubscribersLive ==
    /\ \A ch \in DOMAIN subs : \A s \in subs[ch] : LiveAt(s) # {}
    /\ \A k \in Conns :
           pc[k] = "pub_write" => \A s \in todo[k] : LiveAt(s) # {}

\* C32: whatever bytes the client sends, the handler thread does not panic.
C32_NoPanic == wpc # "panic"

\* C33: a step a handler takes inside add_subscription or remove_subscription
\* for its channel changes no membership but that of its own id in that
\* channel: every other id is in every channel's set after the step exactly
\* when it was before.
C33_OnlyOwnMembership ==
    [][\A k \in Conns :
          (/\ pc[k] \in {"sub_insert_channel", "sub_insert_id", "unsub_remove"}
           /\ pc'[k] # pc[k]) =>
              \A ch \in Channels, id \in HandlerSlots :
                  (id # addr[k] \/ ch # cmd[k].channel) =>
                      (id \in get_subscribers(subs, ch)
                           <=> id \in get_subscribers(subs', ch))]_vars

\* C34: the registry never deadlocks: there is no set of threads each inside
\* lock() on a mutex whose guard is held by a thread of the set (a cycle
\* between the two locks, or a thread locking a mutex it holds itself).
C34_DeadlockFree == ~Deadlocked

\* a thread waits for CLIENTS while remove_client holds it over its loop, for
\* a client that is subscribed, and SUBSCRIPTIONS has been locked as well
C34_Witness ==
    \E t \in Threads, u \in Threads :
        /\ lpc[t] = "rc_loop"
        /\ Holding(t, "CLIENTS")
        /\ t \in get_subscribers(subs, "a")
        /\ Waiting(u)
        /\ Needs(lpc[u]) = "CLIENTS"

\* C35: once the peer has closed its side, the handler eventually leaves its
\* loop.
C35_PeerCloseEnds == Closed ~> (wpc \in {"exit", "panic"})

\* the fan-out k is in has written to the connection c
WrittenTo(k, c) == \E i \in DOMAIN sent[k].to : sent[k].to[i].conn = c

\* C36: once the handler of c has finished UNSUBSCRIBE ch, a PUBLISH to ch
\* that starts afterwards writes to the connection of c only if c has
\* subscribed again, that is, only if the id of c is in its snapshot.
C36_NoDeliveryAfterUnsubscribe ==
    \A c \in Conns, k \in Conns, ch \in Channels :
        []((/\ Done(c, "UNSUBSCRIBE", ch)
            /\ (k = c \/ pc[k] \in {"none", "read"})) =>
               []((/\ cmd[k].verb = "PUBLISH"
                   /\ cmd[k].channel = ch
                   /\ WrittenTo(k, c)) => addr[c] \in snap[k]))

(***************************************************************************)
(* The earlier variant of the registry (src/src/server/state.rs).  A       *)
(* client's id is the text "ip:port" of its peer address, the map of       *)
(* subscriptions is guarded by the one mutex SUBSCRIPTIONS, and            *)
(* add_subscription binds the guard with `let` (line 88) before it calls   *)
(* is_channel_registered (line 91), which calls SUBSCRIPTIONS.lock() again *)
(* (line 80).  std::sync::Mutex::lock does not return when the calling     *)
(* thread already holds the mutex: the thread blocks for ever or the call  *)
(* panics, which unwinds through the live guard and poisons the mutex.     *)
(* The statements behind that call (lines 92-99) are therefore never       *)
(* reached and have no step here.                                           *)
(***************************************************************************)
PeerIds == <<"127.0.0.1:50001", "127.0.0.1:50002", "127.0.0.1:50003">>

\* src/src/server/state.rs 15-19
get_client_id(t) == PeerIds[t]

\* value of the mutex once a thread has panicked under its guard: the
\* mutex is free, the holder is no thread
Poisoned == MaxThreads + 1

EarlyPoints ==
    {"e_as_guard", "e_as_check", "e_rs_check", "e_rs_remove", "e_insert"}

\* a thread calls add_subscription or remove_subscription, or inserts the
\* channel as the tests do
EarlyCall(t, entry, ch) ==
    /\ lpc[t] = "idle"
    /\ lpc' = [lpc EXCEPT ![t] = entry]
    /\ larg' = [larg EXCEPT ![t] =
                  [channel |-> ch, todo |-> {}, nested |-> FALSE,
                   got |-> FALSE]]
    /\ UNCHANGED <<clients, subs, locks, offLocks>>

\* Mutex::lock returns Ok: no guard is alive and the mutex is not poisoned
EarlyAcquire(t) ==
    /\ lpc[t] \in EarlyPoints
    /\ ~larg[t].got
    /\ locks["SUBSCRIPTIONS"] = 0
    /\ locks' = [locks EXCEPT !["SUBSCRIPTIONS"] = t]
    /\ larg' = [larg EXCEPT ![t].got = TRUE]
    /\ UNCHANGED <<clients, subs, lpc, offLocks>>

\* Mutex::lock returns Err on a poisoned mutex and unwrap() panics
EarlyAcquirePoisoned(t) ==
    /\ lpc[t] \in EarlyPoints
    /\ ~larg[t].got
    /\ locks["SUBSCRIPTIONS"] = Poisoned
    /\ lpc' = [lpc EXCEPT ![t] = "panicked"]
    /\ larg' = [larg EXCEPT ![t] = NoArg]
    /\ UNCHANGED <<clients, subs, locks, offLocks>>

\* line 88: `let mut subscriptions = SUBSCRIPTIONS.lock().unwrap();` the
\* guard stays alive and the thread goes on to is_channel_registered
EarlyAddSubscriptionGuard(t) ==
    /\ lpc[t] = "e_as_guard" /\ Acquired(t)
    /\ lpc' = [lpc EXCEPT ![t] = "e_as_check"]
    /\ larg' = Go(t)
    /\ UNCHANGED <<clients, subs, locks, offLocks>>

\* lines 91, 80: lock() on the mutex the thread holds panics; the guard of
\* line 88 is dropped by the unwinding and leaves the mutex poisoned
EarlyRelockPanics(t) ==
    /\ lpc[t] = "e_as_check"
    /\ ~larg[t].got
    /\ Holding(t, "SUBSCRIPTIONS")
    /\ lpc' = [lpc EXCEPT ![t] = "panicked"]
    /\ locks' = [locks EXCEPT !["SUBSCRIPTIONS"] = Poisoned]
    /\ larg' = [larg EXCEPT ![t] = NoArg]
    /\ UNCHANGED <<clients, subs, offLocks>>

\* lines 108-110: is_channel_registered inside remove_subscription
EarlyRemoveSubCheck(t) ==
    /\ lpc[t] = "e_rs_check" /\ Acquired(t)
    /\ locks' = Release("SUBSCRIPTIONS")
    /\ lpc' = [lpc EXCEPT ![t] =
                 IF is_channel_registered(subs, larg[t].channel)
                 THEN "e_rs_remove" ELSE "idle"]
    /\ larg' = Go(t)
    /\ UNCHANGED <<clients, subs, offLocks>>

\* lines 113-118
EarlyRemoveSubRemove(t) ==
    /\ lpc[t] = "e_rs_remove" /\ Acquired(t)
    /\ IF is_channel_registered(subs, larg[t].channel)
       THEN subs' = RemoveSubscriber(subs, get_client_id(t), larg[t].channel)
       ELSE UNCHANGED subs
    /\ locks' = Release("SUBSCRIPTIONS")
    /\ lpc' = [lpc EXCEPT ![t] = "idle"]
    /\ larg' = Go(t)
    /\ UNCHANGED <<clients, offLocks>>

\* lines 243-246: the tests put the channel into SUBSCRIPTIONS directly
EarlyInsertChannel(t) ==
    /\ lpc[t] = "e_insert" /\ Acquired(t)
    /\ subs' = insert(subs, larg[t].channel, {})
    /\ locks' = Release("SUBSCRIPTIONS")
    /\ lpc' = [lpc EXCEPT ![t] = "idle"]
    /\ larg' = Go(t)
    /\ UNCHANGED <<clients, offLocks>>

NextEarly ==
    \/ \E t \in Threads, ch \in Channels :
          \E entry \in {"e_as_guard", "e_rs_check", "e_insert"} :
              EarlyCall(t, entry, ch)
    \/ \E t \in Threads : EarlyAcquire(t)
    \/ \E t \in Threads : EarlyAcquirePoisoned(t)
    \/ \E t \in Threads : EarlyAddSubscriptionGuard(t)
    \/ \E t \in Threads : EarlyRelockPanics(t)
    \/ \E t \in Threads : EarlyRemoveSubCheck(t)
    \/ \E t \in Threads : EarlyRemoveSubRemove(t)
    \/ \E t \in Threads : EarlyInsertChannel(t)

\* every thread that can take a step is scheduled
SpecEarly == Init /\ [][NextEarly]_vars /\ WF_vars(NextEarly)

(***************************************************************************)
(* C37: in the earlier variant every call of add_subscription, for a new   *)
(* or an existing channel, returns with the caller's id in the channel's   *)
(* set of subscribers; it does not block on the SUBSCRIPTIONS lock.        *)
(***************************************************************************)
C37_AddSubscriptionReturns ==
    \A t \in Threads, ch \in Channels :
        (lpc[t] = "e_as_guard" /\ larg[t].channel = ch)
            ~> (/\ lpc[t] = "idle"
                /\ get_client_id(t) \in get_subscribers(subs, ch))

=============================================================================
